---- MODULE Spec2Model ----
(***************************************************************************)
(* EscrowX: the publish pipeline of the profile page and of the post-job   *)
(* page (attachment validation, per-role file uploads, manifest upload)    *)
(* and the service matching score.                                         *)
(*                                                                         *)
(* One page component is mounted (page).  A publish run is one execution   *)
(* of its onSubmit handler; the handler suspends at each await of a fetch, *)
(* so the run is a sequence of steps: the synchronous validation, then,    *)
(* per role, the call of uploadFilesToIPFS and the arrival of the          *)
(* provider's response, then the same for uploadJSONToIPFS.                *)
(***************************************************************************)
EXTENDS Integers, Sequences, FiniteSets, TLC

VARIABLES
    page,        \* which component is mounted: "profile" or "job"
    token,       \* process.env.NEXT_PUBLIC_WEB3_STORAGE_TOKEN
    pc,          \* "idle" | "call" (about to call an uploader) | "await" (fetch pending)
                 \* | "returned" (the handler has run its last statement)
    step,        \* the role whose upload is next / pending, or "doc"
    data,        \* the FileLists of the submitted form, per role (file sizes)
    files,       \* certFiles / pfFiles / profilePic / files: the validated arrays
    cids,        \* certCid / portCid / picCid / uploaded: results of the batch uploads
    doc,         \* the document handed to uploadJSONToIPFS in this run
    attErr,      \* useState attErr
    isSuccess,   \* useState isSuccess
    ipfsUrl,     \* useState ipfsUrl
    draft,       \* localStorage has the page's draft key
    alertMsg,    \* the message of the alert() shown by this run
    outcome,     \* how the run ended: "none" | "running" | "invalid" | "error" | "published"
    net,         \* the fetch requests of this run, each with the provider's response
    store,       \* what the storage provider has accepted (append-only)
    nBatchCalls, \* invocations of uploadFilesToIPFS in this run
    nDocCalls,   \* invocations of uploadJSONToIPFS in this run
    failure,     \* the error thrown by the uploader call that failed in this run
    match,       \* the last computeMatch evaluation: job, service and the components
    top          \* the last getTopMatches evaluation: the job and the returned array

vars == <<page, token, pc, step, data, files, cids, doc, attErr, isSuccess, ipfsUrl,
          draft, alertMsg, outcome, net, store, nBatchCalls, nDocCalls, failure,
          match, top>>

pubVars == <<page, token, pc, step, data, files, cids, doc, attErr, isSuccess, ipfsUrl,
             draft, alertMsg, outcome, net, store, nBatchCalls, nDocCalls, failure>>

----------------------------------------------------------------------------
(* Bounds *)

MaxCertFiles == 2          \* longest certifications FileList submitted
MaxPortfolioFiles == 11    \* longest portfolio FileList submitted
MaxJobFiles == 2           \* longest job attachments FileList submitted
MaxJobSkills == 8          \* longest job.skills array scored

(* Program constants *)

MiB == 1024 * 1024
ProfileMaxMB == 5
JobMaxBytes == 10 * 1024 * 1024
PortfolioSlice == 10
PicInputMax == 1
TopK == 3

Null == "null"
Absent == ""
Token == "tok"

ProfileRolesPortfolioFirst == <<"port", "cert", "pic">>

ProfileRoles == <<"cert", "port", "pic">>
JobRoles == <<"att">>

RolesOf(p) == IF p = "profile" THEN ProfileRoles ELSE JobRoles

RoleSet(p) == {RolesOf(p)[i] : i \in 1..Len(RolesOf(p))}

Min(a, b) == IF a <= b THEN a ELSE b
Max(a, b) == IF a >= b THEN a ELSE b

----------------------------------------------------------------------------
(* Values *)

CIDs == {"bafyA", "bafyB"}             \* content identifiers the provider may return
Texts == {"", "quota exceeded"}        \* bodies of the provider's error responses

NoError == [message |-> Null, text |-> ""]
MissingTokenError ==
    [message |-> "Missing Web3.Storage token. Set NEXT_PUBLIC_WEB3_STORAGE_TOKEN.", text |-> ""]
UploadFailedError(text) == [message |-> "IPFS upload failed: ", text |-> text]
FetchError == [message |-> "Failed to fetch", text |-> ""]

NoUrl == [gateway |-> Null, cid |-> Null]
Url(cid) == [gateway |-> "https://w3s.link/ipfs/", cid |-> cid]

NullResult == [cid |-> Null, url |-> NoUrl]
Result(cid) == [cid |-> cid, url |-> Url(cid)]

(* The provider's answer to one fetch: res.ok with a cid, a non-ok response
   with a body text, or the fetch promise rejecting. *)
Responses ==
    [kind : {"ok"}, cid : CIDs, text : {""}]
      \cup [kind : {"notok"}, cid : {Null}, text : Texts]
      \cup [kind : {"reject"}, cid : {Null}, text : {""}]

----------------------------------------------------------------------------
(* Attachment validation *)

CheckSizeExclusive(size, maxMB) == size < maxMB * 1024 * 1024

CheckSize(size, maxMB) == size <= maxMB * 1024 * 1024

JobTooLarge(size) == size > 10 * 1024 * 1024

CertTooLargeMsg == "Certification exceeds 5MB"
PortTooLargeMsg == "Portfolio file exceeds 5MB"
PicTooLargeMsg == "Profile picture exceeds 5MB"
JobTooLargeMsg == "Attachment exceeds 10MB limit"

ValidateProfileCertOnly(certList, pList, picList) ==
    IF \E i \in 1..Len(certList) : ~CheckSize(certList[i], ProfileMaxMB)
    THEN CertTooLargeMsg
    ELSE Null

(* The three loops of ProfilePage.onSubmit: the message set before the first
   return, or Null when every loop runs to its end. *)
ValidateProfile(certList, pList, picList) ==
    IF \E i \in 1..Len(certList) : ~CheckSize(certList[i], ProfileMaxMB)
    THEN CertTooLargeMsg
    ELSE IF \E i \in 1..Len(pList) : ~CheckSize(pList[i], ProfileMaxMB)
    THEN PortTooLargeMsg
    ELSE IF Len(picList) > 0 /\ ~CheckSize(picList[1], ProfileMaxMB)
    THEN PicTooLargeMsg
    ELSE Null

(* The loop of PostJobPage.onSubmit. *)
ValidateJob(input) ==
    IF \E i \in 1..Len(input) : JobTooLarge(input[i])
    THEN JobTooLargeMsg
    ELSE Null

(* profilePic receives item(0) only. *)
FirstOnly(list) == IF Len(list) > 0 THEN <<list[1]>> ELSE <<>>

(* The argument of uploadFilesToIPFS: pfFiles.slice(0, 10) for the portfolio. *)
BatchArg(role, fs) ==
    IF role = "port" THEN SubSeq(fs, 1, Min(PortfolioSlice, Len(fs))) ELSE fs

----------------------------------------------------------------------------
(* Submitted FileLists *)

ProfileLimit == ProfileMaxMB * MiB

SeqsUpTo(S, n) == UNION {[1..k -> S] : k \in 0..n}

(* The lists of n files that are all small but for at most one: the last file
   exactly at the limit, or a file at any position one byte over it. *)
OneBigFile(n, limit) ==
    {[i \in 1..n |-> 1]}
      \cup {[i \in 1..n |-> IF i = k THEN limit ELSE 1] : k \in {n} \cap (1..n)}
      \cup {[i \in 1..n |-> IF i = k THEN limit + 1 ELSE 1] : k \in 1..n}

CertLists == UNION {OneBigFile(n, ProfileLimit) : n \in 0..MaxCertFiles}
PortfolioLists == UNION {OneBigFile(n, ProfileLimit) : n \in 0..MaxPortfolioFiles}
PicLists == SeqsUpTo({ProfileLimit, ProfileLimit + 1}, PicInputMax)
JobLists == SeqsUpTo({1, JobMaxBytes, JobMaxBytes + 1}, MaxJobFiles)

NoFiles(p) == [r \in RoleSet(p) |-> <<>>]
NoResults(p) == [r \in RoleSet(p) |-> NullResult]
NoDoc(p) == [subject |-> Null, refs |-> [r \in RoleSet(p) |-> Null]]

(* The step after role r in onSubmit: the next role's upload, then the document. *)
StepAfterStraightToDoc(p, r) == "doc"

StepAfter(p, r) ==
    LET rs == RolesOf(p)
        i == CHOOSE k \in 1..Len(rs) : rs[k] = r
    IN IF i < Len(rs) THEN rs[i + 1] ELSE "doc"

----------------------------------------------------------------------------
(* The catch block of onSubmit *)

Fallback(p) == IF p = "profile" THEN "Failed to publish profile" ELSE "Failed to publish job"

AlertTextGeneric(e, p) == [message |-> Fallback(p), text |-> ""]

(* alert(e.message || 'Failed to publish ...') *)
AlertText(e, p) == IF e.message = "" THEN [message |-> Fallback(p), text |-> ""] ELSE e

PcAfterCatchRetry == "call"

(* The catch block ends the handler. *)
PcAfterCatch == "returned"

(* An uploader call of this run throws e; onSubmit catches it. *)
Throws(e) ==
    /\ failure' = e
    /\ alertMsg' = AlertText(e, page)
    /\ outcome' = "error"
    /\ pc' = PcAfterCatch

TokenMissingNever(t) == FALSE

(* if (!token) *)
TokenMissing(t) == t = Absent

Request(op, role, body, t) ==
    [op |-> op, role |-> role, files |-> body, token |-> t,
     status |-> "pending", cid |-> Null, text |-> ""]

Answered(req, resp) ==
    [req EXCEPT !.status = resp.kind, !.cid = resp.cid, !.text = resp.text]

(* The error an uploader throws for a response that is not ok, or the
   rejection of fetch itself. *)
ErrorOf(resp) == IF resp.kind = "notok" THEN UploadFailedError(resp.text) ELSE FetchError

----------------------------------------------------------------------------
(* The matching score *)

Levels == <<"Entry", "Mid", "Senior", "Expert">>
LevelSet == {"Entry", "Mid", "Senior", "Expert"}

(* ['Entry','Mid','Senior','Expert'].indexOf(level) *)
IndexOf(level) == (CHOOSE k \in 1..Len(Levels) : Levels[k] = level) - 1

(* Amounts are counted in tenths, so that a text with one decimal parses to
   an integer: parseFloat of the texts the budget fields take here. *)
ParseFloat(text) ==
    CASE text = "0" -> 0
      [] text = "50" -> 500
      [] text = "70.5" -> 705
      [] text = "100" -> 1000

(* job.budgetMin || '0' *)
OrZero(text) == IF text = "" THEN "0" ELSE text

Tenths(n) == n * 10

RoundDown(num, den) == num \div den

(* Math.round of the quotient num / den of non-negative integers, den > 0:
   halves round up. *)
Round(num, den) == (2 * num + den) \div (2 * den)

(* job.skills.filter((s) => service.skills.includes(s)).length *)
SkillOverlap(job, service) ==
    Cardinality({i \in 1..Len(job.skills) : job.skills[i] \in service.skills})

SkillScoreNoGuard(job, service) ==
    IF Len(job.skills) = 0 THEN 60
    ELSE Min(100, Round(SkillOverlap(job, service) * 60, Len(job.skills)))

SkillScore(job, service) ==
    Min(100, Round(SkillOverlap(job, service) * 60, Max(1, Len(job.skills))))

ExpScoreReversed(job, service) ==
    IF job.experience = service.experience THEN 20
    ELSE IF IndexOf(service.experience) <= IndexOf(job.experience) THEN 10 ELSE 5

ExpScore(job, service) ==
    IF job.experience = service.experience THEN 20
    ELSE IF IndexOf(job.experience) <= IndexOf(service.experience) THEN 10 ELSE 5

BudgetFitExclusive(job, service) ==
    LET budgetMin == ParseFloat(OrZero(job.budgetMin))
        budgetMax == ParseFloat(OrZero(job.budgetMax))
    IN IF Tenths(service.priceMin) > budgetMin /\ Tenths(service.priceMax) < budgetMax
       THEN 15 ELSE 5

BudgetFit(job, service) ==
    LET budgetMin == ParseFloat(OrZero(job.budgetMin))
        budgetMax == ParseFloat(OrZero(job.budgetMax))
    IN IF Tenths(service.priceMin) >= budgetMin /\ Tenths(service.priceMax) <= budgetMax
       THEN 15 ELSE 5

RemoteFitInverted(job, service) ==
    IF job.locationPref = "Remote" THEN (IF service.remote THEN 0 ELSE 5) ELSE 0

RemoteFit(job, service) ==
    IF job.locationPref = "Remote" THEN (IF service.remote THEN 5 ELSE 0) ELSE 0

ComputeMatch(job, service) ==
    Min(100, SkillScore(job, service) + ExpScore(job, service) + BudgetFit(job, service)
               + RemoteFit(job, service))

MOCK_SERVICES == <<
    [title |-> "Solidity Engineer", skills |-> {"Solidity", "Hardhat", "Security"},
     experience |-> "Senior", priceMin |-> 50, priceMax |-> 100, remote |-> TRUE],
    [title |-> "Web3 Frontend Dev", skills |-> {"React", "Next.js", "Wagmi", "Viem"},
     experience |-> "Mid", priceMin |-> 35, priceMax |-> 70, remote |-> TRUE],
    [title |-> "DeFi Strategist", skills |-> {"AI/ML", "Design", "Security"},
     experience |-> "Expert", priceMin |-> 80, priceMax |-> 150, remote |-> TRUE] >>

(* Scored inputs *)

SKILLS == <<"Solidity", "React", "Next.js", "Wagmi", "Viem", "The Graph", "Ethers",
            "Hardhat", "UI/UX", "Rust", "Substrate", "Design", "DevOps", "Testing",
            "Security", "AI/ML">>

(* job.skills holds the checked boxes of the SKILLS group, in its order and
   without repeats: here the runs of neighbouring boxes. *)
JobSkillLists ==
    UNION {{SubSeq(SKILLS, a, b) : b \in (a - 1)..Min(a + MaxJobSkills - 1, Len(SKILLS))} :
              a \in 1..Len(SKILLS)}

BudgetTexts == {"", "50", "70.5", "100"}

Jobs ==
    [skills : JobSkillLists, experience : LevelSet,
     budgetMin : BudgetTexts, budgetMax : BudgetTexts,
     locationPref : {"Remote", "On-site", "Hybrid"}]

Candidates ==
    {MOCK_SERVICES[k] : k \in 1..Len(MOCK_SERVICES)}
      \cup [title : {"candidate"}, skills : {{}, {"Solidity", "React"}},
            experience : LevelSet, priceMin : {50}, priceMax : {70, 120},
            remote : BOOLEAN]

NoMatch ==
    [done |-> FALSE,
     job |-> [skills |-> <<>>, experience |-> "Entry", budgetMin |-> "", budgetMax |-> "",
              locationPref |-> "Remote"],
     service |-> MOCK_SERVICES[1],
     skill |-> 0, exp |-> 0, budget |-> 0, remote |-> 0, total |-> 0]

(* The ranking *)

(* .map((s) => ({ ...s, score: computeMatch(job, s) })) *)
Scored(job, services) ==
    [k \in 1..Len(services) |->
        [title |-> services[k].title, score |-> ComputeMatch(job, services[k])]]

BeforeAscending(a, b) == a.score - b.score > 0

(* The comparator (a, b) => b.score - a.score puts b before a when it is
   positive. *)
Before(a, b) == b.score - a.score > 0

(* Array.prototype.sort with that comparator: the sort is stable, an entry
   moves in front of those that the comparator puts it before and stays
   behind the others. *)
RECURSIVE InsertSorted(_, _)
InsertSorted(sorted, e) ==
    IF Len(sorted) = 0 THEN <<e>>
    ELSE IF Before(sorted[Len(sorted)], e)
         THEN Append(InsertSorted(SubSeq(sorted, 1, Len(sorted) - 1), e), sorted[Len(sorted)])
         ELSE Append(sorted, e)

RECURSIVE Sort(_)
Sort(arr) ==
    IF Len(arr) = 0 THEN <<>>
    ELSE InsertSorted(Sort(SubSeq(arr, 1, Len(arr) - 1)), arr[Len(arr)])

(* .slice(0, n) *)
Slice(arr, n) == SubSeq(arr, 1, Min(n, Len(arr)))

GetTopMatches(job) == Slice(Sort(Scored(job, MOCK_SERVICES)), TopK)

NoTop == [done |-> FALSE, job |-> NoMatch.job, scored |-> <<>>, out |-> <<>>]

----------------------------------------------------------------------------
(* Initial state: the page is mounted, nothing submitted *)

InitPublish ==
    /\ page \in {"profile", "job"}
    /\ token \in {Absent, Token}
    /\ pc = "idle"
    /\ step = "doc"
    /\ data = NoFiles(page)
    /\ files = NoFiles(page)
    /\ cids = NoResults(page)
    /\ doc = NoDoc(page)
    /\ attErr = Null
    /\ isSuccess = FALSE
    /\ ipfsUrl = NoUrl
    /\ draft \in BOOLEAN
    /\ alertMsg = NoError
    /\ outcome = "none"
    /\ net = <<>>
    /\ store = {}
    /\ nBatchCalls = 0
    /\ nDocCalls = 0
    /\ failure = NoError

Init ==
    /\ InitPublish
    /\ match = NoMatch
    /\ top = NoTop

----------------------------------------------------------------------------
(* onSubmit up to the try block: setAttErr(null), the size checks *)

(* The form is shown and no run of the handler is in progress. *)
CanSubmit == pc = "idle" /\ ~isSuccess

StartRun(p, d, err, fs) ==
    /\ CanSubmit
    /\ data' = d
    /\ attErr' = err
    /\ files' = IF err = Null THEN fs ELSE NoFiles(p)
    /\ IF err = Null
       THEN /\ pc' = "call"
            /\ step' = RolesOf(p)[1]
            /\ outcome' = "running"
       ELSE /\ pc' = "returned"
            /\ step' = "doc"
            /\ outcome' = "invalid"
    /\ UNCHANGED <<page, token, cids, doc, isSuccess, ipfsUrl, draft, alertMsg, net, store,
                   nBatchCalls, nDocCalls, failure, match, top>>

ProfileSubmit(certList, pList, picList) ==
    /\ StartRun("profile",
                [cert |-> certList, port |-> pList, pic |-> picList],
                ValidateProfile(certList, pList, picList),
                [cert |-> certList, port |-> pList, pic |-> FirstOnly(picList)])

JobSubmit(input) ==
    /\ StartRun("job", [att |-> input], ValidateJob(input), [att |-> input])

(* handleSubmit(onSubmit) of the mounted page, with the FileLists of the form. *)
ProfileOnSubmit ==
    /\ page = "profile"
    /\ CanSubmit
    /\ \E c \in CertLists, p \in PortfolioLists, i \in PicLists : ProfileSubmit(c, p, i)

JobOnSubmit ==
    /\ page = "job"
    /\ CanSubmit
    /\ \E a \in JobLists : JobSubmit(a)

----------------------------------------------------------------------------
(* The try block: the batch uploads, one role after the other *)

(* certFiles.length ? await uploadFilesToIPFS(certFiles) : null, and the same
   for the other roles: an empty role is given null without a call; otherwise
   uploadFilesToIPFS runs up to its fetch, or throws for a missing token. *)
CallUploadFiles ==
    /\ pc = "call"
    /\ step \in RoleSet(page)
    /\ IF Len(files[step]) = 0
       THEN /\ cids' = [cids EXCEPT ![step] = NullResult]
            /\ step' = StepAfter(page, step)
            /\ UNCHANGED <<pc, net, nBatchCalls, alertMsg, outcome, failure>>
       ELSE /\ nBatchCalls' = nBatchCalls + 1
            /\ IF TokenMissing(token)
               THEN /\ Throws(MissingTokenError)
                    /\ UNCHANGED <<net, step>>
               ELSE /\ net' = Append(net, Request("files", step, BatchArg(step, files[step]), token))
                    /\ pc' = "await"
                    /\ UNCHANGED <<step, alertMsg, outcome, failure>>
            /\ UNCHANGED cids
    /\ UNCHANGED <<page, token, data, files, doc, attErr, isSuccess, ipfsUrl, draft,
                   store, nDocCalls, match, top>>

(* The fetch of uploadFilesToIPFS settles: { cid, url } is returned to
   onSubmit, or the uploader throws and onSubmit's catch block runs. *)
UploadFilesResponds(resp) ==
    /\ pc = "await"
    /\ step \in RoleSet(page)
    /\ net' = [net EXCEPT ![Len(net)] = Answered(@, resp)]
    /\ IF resp.kind = "ok"
       THEN /\ store' = store \cup {resp.cid}
            /\ cids' = [cids EXCEPT ![step] = Result(resp.cid)]
            /\ step' = StepAfter(page, step)
            /\ pc' = "call"
            /\ UNCHANGED <<alertMsg, outcome, failure>>
       ELSE /\ Throws(ErrorOf(resp))
            /\ UNCHANGED <<store, cids, step>>
    /\ UNCHANGED <<page, token, data, files, doc, attErr, isSuccess, ipfsUrl, draft,
                   nBatchCalls, nDocCalls, match, top>>

----------------------------------------------------------------------------
(* The try block: the document *)

DocRefNever(result) == Null

(* certCid?.cid ?? null *)
DocRef(result) == IF result = NullResult THEN Null ELSE result.cid

DocRefsSwapped(p, cs) ==
    [r \in RoleSet(p) |->
        DocRef(cs[IF r = "cert" THEN "port" ELSE IF r = "port" THEN "cert" ELSE r])]

(* certCid, portCid, picCid of the profile document; attachmentsCid of the
   job document. *)
DocRefs(p, cs) == [r \in RoleSet(p) |-> DocRef(cs[r])]

(* uploadJSONToIPFS(doc) runs up to its fetch, or throws for a missing token. *)
CallUploadJSON ==
    /\ pc = "call"
    /\ step = "doc"
    /\ doc' = [subject |-> page, refs |-> DocRefs(page, cids)]
    /\ nDocCalls' = nDocCalls + 1
    /\ IF TokenMissing(token)
       THEN /\ Throws(MissingTokenError)
            /\ UNCHANGED net
       ELSE /\ net' = Append(net, Request("json", "doc", <<>>, token))
            /\ pc' = "await"
            /\ UNCHANGED <<alertMsg, outcome, failure>>
    /\ UNCHANGED <<page, token, step, data, files, cids, attErr, isSuccess, ipfsUrl,
                   draft, store, nBatchCalls, match, top>>

SuccessOnFailure(resp) == TRUE

(* The statements after await uploadJSONToIPFS(...) run only when it returned. *)
Published(resp) == resp.kind = "ok"

(* The draft in localStorage after the success statements. The profile page
   removes it. The job page removes it and then calls reset(), which tells the
   watch subscription of the new values or does not: the draft is gone or
   stored again. *)
DraftAfterSuccess(p) == IF p = "job" THEN BOOLEAN ELSE {FALSE}

(* The fetch of uploadJSONToIPFS settles: setIpfsUrl(json.url),
   setIsSuccess(true), localStorage.removeItem(draft key); or the catch block. *)
UploadJSONResponds(resp) ==
    /\ pc = "await"
    /\ step = "doc"
    /\ net' = [net EXCEPT ![Len(net)] = Answered(@, resp)]
    /\ store' = IF resp.kind = "ok" THEN store \cup {resp.cid} ELSE store
    /\ IF Published(resp)
       THEN /\ ipfsUrl' = Url(resp.cid)
            /\ isSuccess' = TRUE
            /\ draft' \in DraftAfterSuccess(page)
            /\ outcome' = "published"
            /\ pc' = "returned"
            /\ UNCHANGED <<alertMsg, failure>>
       ELSE /\ Throws(ErrorOf(resp))
            /\ UNCHANGED <<ipfsUrl, isSuccess, draft>>
    /\ UNCHANGED <<page, token, step, data, files, cids, doc, attErr, nBatchCalls,
                   nDocCalls, match, top>>

----------------------------------------------------------------------------
(* The rest of the page *)

(* The promise of onSubmit settles in handleSubmit: the locals of the handler
   are gone, the record of the finished run is closed, and the form takes the
   next submission. The component's state and the provider's store stay. *)
HandlerReturns ==
    /\ pc = "returned"
    /\ pc' = "idle"
    /\ step' = "doc"
    /\ data' = NoFiles(page)
    /\ files' = NoFiles(page)
    /\ cids' = NoResults(page)
    /\ doc' = NoDoc(page)
    /\ alertMsg' = NoError
    /\ outcome' = "none"
    /\ net' = <<>>
    /\ nBatchCalls' = 0
    /\ nDocCalls' = 0
    /\ failure' = NoError
    /\ UNCHANGED <<page, token, attErr, isSuccess, ipfsUrl, draft, store, match, top>>

(* The "Update Profile" / "Post Another" button: setIsSuccess(false). *)
ShowFormAgain ==
    /\ isSuccess
    /\ isSuccess' = FALSE
    /\ UNCHANGED <<page, token, pc, step, data, files, cids, doc, attErr, ipfsUrl, draft,
                   alertMsg, outcome, net, store, nBatchCalls, nDocCalls, failure, match, top>>

(* The watch subscription: a change of a form field saves the draft. *)
EditForm ==
    /\ ~isSuccess
    /\ ~draft
    /\ draft' = TRUE
    /\ UNCHANGED <<page, token, pc, step, data, files, cids, doc, attErr, isSuccess,
                   ipfsUrl, alertMsg, outcome, net, store, nBatchCalls, nDocCalls,
                   failure, match, top>>

Next ==
    \/ ProfileOnSubmit
    \/ JobOnSubmit
    \/ CallUploadFiles
    \/ \E resp \in Responses : UploadFilesResponds(resp)
    \/ CallUploadJSON
    \/ \E resp \in Responses : UploadJSONResponds(resp)
    \/ HandlerReturns
    \/ ShowFormAgain
    \/ EditForm

Spec == Init /\ [][Next]_vars

(* The handler's continuation runs when the promise it awaits has settled,
   and every fetch issued is answered. *)
SpecLive ==
    /\ Spec
    /\ WF_vars(CallUploadFiles)
    /\ WF_vars(CallUploadJSON)
    /\ WF_vars(\E resp \in Responses : UploadFilesResponds(resp))
    /\ WF_vars(\E resp \in Responses : UploadJSONResponds(resp))

----------------------------------------------------------------------------
(* Evaluations of the matching score *)

(* One evaluation of computeMatch(job, service), with its local constants. *)
ComputeMatchStep(job, service) ==
    /\ match' = [done |-> TRUE, job |-> job, service |-> service,
                 skill |-> SkillScore(job, service),
                 exp |-> ExpScore(job, service),
                 budget |-> BudgetFit(job, service),
                 remote |-> RemoteFit(job, service),
                 total |-> ComputeMatch(job, service)]
    /\ UNCHANGED <<pubVars, top>>

(* The scoring alone: a posted job page on which computeMatch is evaluated. *)
InitMatch ==
    /\ page = "job"
    /\ token = Token
    /\ pc = "idle"
    /\ step = "doc"
    /\ data = NoFiles("job")
    /\ files = NoFiles("job")
    /\ cids = NoResults("job")
    /\ doc = NoDoc("job")
    /\ attErr = Null
    /\ isSuccess = FALSE
    /\ ipfsUrl = NoUrl
    /\ draft = FALSE
    /\ alertMsg = NoError
    /\ outcome = "none"
    /\ net = <<>>
    /\ store = {}
    /\ nBatchCalls = 0
    /\ nDocCalls = 0
    /\ failure = NoError
    /\ match = NoMatch
    /\ top = NoTop

(* One evaluation of getTopMatches(job), with the scored catalogue it sorts. *)
GetTopMatchesStep(job) ==
    /\ top' = [done |-> TRUE, job |-> job, scored |-> Scored(job, MOCK_SERVICES),
               out |-> GetTopMatches(job)]
    /\ UNCHANGED <<pubVars, match>>

(* A behaviour takes the score of one job and one candidate, or the ranking
   for one job, once. *)
ScoreOnce ==
    /\ ~match.done
    /\ ~top.done
    /\ \E job \in Jobs, service \in Candidates : ComputeMatchStep(job, service)

RankOnce ==
    /\ ~match.done
    /\ ~top.done
    /\ \E job \in Jobs : GetTopMatchesStep(job)

NextMatch ==
    \/ ScoreOnce
    \/ RankOnce

SpecMatch == InitMatch /\ [][NextMatch]_vars

----------------------------------------------------------------------------
(* Properties of the publish pipeline *)

FailedStatus == {"notok", "reject"}

RoleLimit(r) == IF r = "att" THEN JobMaxBytes ELSE ProfileLimit

BatchRequests == {i \in 1..Len(net) : net[i].op = "files"}
DocRequests == {i \in 1..Len(net) : net[i].op = "json"}

NonEmptyRoles == {r \in RoleSet(page) : Len(data[r]) > 0}

(* The error thrown for the answer recorded in a request. *)
ErrorIn(req) == IF req.status = "notok" THEN UploadFailedError(req.text) ELSE FetchError

(* An uploadFilesToIPFS call of this run threw: the run was at a role's step. *)
BatchCallFailed == failure # NoError /\ step \in RoleSet(page)

(* C1: if an uploadFilesToIPFS call of a publish run fails (the provider
   refuses, the fetch rejects, or the token is missing), uploadJSONToIPFS is
   not called in that run, no document is built, the page is not in the
   published state, and the alert shows the error of the failing call. *)
C1_BatchFailureAbortsPublish ==
    /\ BatchCallFailed =>
          /\ nDocCalls = 0
          /\ DocRequests = {}
          /\ doc = NoDoc(page)
          /\ outcome = "error"
          /\ pc = "returned"
          /\ ~isSuccess
          /\ alertMsg = failure
    /\ \A i \in BatchRequests : net[i].status \in FailedStatus =>
          /\ BatchCallFailed
          /\ alertMsg = ErrorIn(net[i])

C1_Witness ==
    /\ Len(net) = 2
    /\ net[1].op = "files" /\ net[1].status = "ok"
    /\ net[2].op = "files" /\ net[2].status = "notok" /\ net[2].text = "quota exceeded"
    /\ outcome = "error"

HasTooLarge == \E r \in RoleSet(page) : \E i \in 1..Len(data[r]) : data[r][i] > RoleLimit(r)

TooLargeMsgs == {CertTooLargeMsg, PortTooLargeMsg, PicTooLargeMsg, JobTooLargeMsg}

(* C2: a submission with a file over its role's size limit, whatever its role
   and position, ends in the too-large message with no uploader call and no
   fetch at all. *)
C2_TooLargeMeansNoNetwork ==
    HasTooLarge =>
        /\ outcome = "invalid"
        /\ attErr \in TooLargeMsgs
        /\ net = <<>>
        /\ nBatchCalls = 0
        /\ nDocCalls = 0
        /\ pc = "returned"

C2_Witness ==
    /\ page = "profile"
    /\ Len(data.cert) > 0
    /\ Len(data.port) > PortfolioSlice
    /\ data.port[Len(data.port)] > ProfileLimit
    /\ outcome = "invalid"
    /\ attErr = PortTooLargeMsg

(* C3: every reference of the document handed to uploadJSONToIPFS that is not
   null is the cid the provider returned to this run's successful files
   request of that role. *)
C3_RefsComeFromUploads ==
    doc.subject # Null =>
        \A r \in RoleSet(page) : doc.refs[r] # Null =>
            \E i \in BatchRequests :
                /\ net[i].role = r
                /\ net[i].status = "ok"
                /\ net[i].cid = doc.refs[r]

C3_Witness ==
    /\ page = "profile"
    /\ doc.subject = "profile"
    /\ doc.refs["cert"] = "bafyA"
    /\ doc.refs["port"] = "bafyB"
    /\ doc.refs["pic"] = Null

(* C4: when the document upload fails after the batch uploads succeeded, the
   handler ends in its catch block with the upload's error: isSuccess stays
   false, ipfsUrl keeps its value, and every cid the provider accepted for a
   batch of this run is still in the store. *)
C4_DocFailureLeavesNoManifest ==
    [][(pc = "await" /\ step = "doc" /\ net'[Len(net')].status \in FailedStatus) =>
          /\ pc' = "returned"
          /\ outcome' = "error"
          /\ isSuccess' = FALSE
          /\ ipfsUrl' = ipfsUrl
          /\ alertMsg' = ErrorIn(net'[Len(net')])
          /\ store \subseteq store'
          /\ \A i \in BatchRequests : net[i].status = "ok" /\ net[i].cid \in store']_vars

C4_Witness ==
    /\ outcome = "error"
    /\ Len(net) >= 2
    /\ net[Len(net)].op = "json"
    /\ net[Len(net)].status \in FailedStatus
    /\ net[1].status = "ok"
    /\ net[1].cid \in store
    /\ ipfsUrl # NoUrl
    /\ ~isSuccess

(* C5: a portfolio of more files than the documented maximum (the form says
   "max 10 files") is rejected by validation: the run ends invalid with a
   message, nothing is uploaded, and no files request carries fewer files than
   were submitted. *)
C5_TooManyFilesRejected ==
    /\ (page = "profile" /\ Len(data["port"]) > PortfolioSlice) =>
          /\ outcome = "invalid"
          /\ attErr # Null
          /\ net = <<>>
    /\ \A i \in BatchRequests : Len(net[i].files) = Len(data[net[i].role])

AllWithinLimit == \A r \in RoleSet(page) : \A i \in 1..Len(data[r]) : data[r][i] <= RoleLimit(r)

SomeJustOver == \E r \in RoleSet(page) : \E i \in 1..Len(data[r]) : data[r][i] = RoleLimit(r) + 1

(* C6: the size limit is inclusive. A submission whose files are all at most
   their role's limit (5 MiB on the profile page, 10 MiB on the job page),
   files of exactly the limit included, passes validation: no message is set
   and the run goes on to the uploads. A file of limit + 1 bytes ends the run
   with the message. *)
C6_LimitIsInclusive ==
    outcome # "none" =>
        /\ AllWithinLimit => (attErr = Null /\ outcome # "invalid")
        /\ SomeJustOver => (attErr # Null /\ outcome = "invalid")

C6_Witness ==
    /\ page = "profile"
    /\ data["pic"] = <<ProfileLimit>>
    /\ data["cert"] = <<1, ProfileLimit>>
    /\ Len(net) = 3
    /\ net[3].role = "pic"
    /\ net[3].files = <<ProfileLimit>>
    /\ net[3].status = "ok"

(* C7: with the token missing no fetch is ever issued: the first uploader
   call of a run throws the missing-token error before its fetch and the run
   ends there. With the token present every request of a run carries that
   same token. *)
C7_MissingTokenStopsBeforeNetwork ==
    /\ token = Absent =>
          /\ net = <<>>
          /\ store = {}
          /\ nBatchCalls + nDocCalls <= 1
          /\ nBatchCalls + nDocCalls = 1 =>
                (outcome = "error" /\ alertMsg = MissingTokenError /\ pc = "returned")
    /\ \A i \in 1..Len(net) : net[i].token = token /\ net[i].token # Absent

C7_Witness ==
    /\ token = Absent
    /\ page = "profile"
    /\ Len(data["cert"]) = 0
    /\ Len(data["port"]) = 0
    /\ Len(data["pic"]) = 1
    /\ nBatchCalls = 1
    /\ outcome = "error"
    /\ alertMsg = MissingTokenError

(* C8: no retries. A run issues at most one fetch per uploader call and at
   most one per role and one for the document; a fetch that failed is the
   last one of its run, and the run has ended with its error in the alert. *)
C8_NoRetries ==
    /\ Len(net) <= nBatchCalls + nDocCalls
    /\ nBatchCalls <= Cardinality(NonEmptyRoles)
    /\ nDocCalls <= 1
    /\ \A i, j \in 1..Len(net) : net[i].role = net[j].role => i = j
    /\ \A i \in 1..Len(net) : net[i].status \in FailedStatus =>
          /\ i = Len(net)
          /\ pc = "returned"
          /\ outcome = "error"
          /\ alertMsg = ErrorIn(net[i])

C8_Witness ==
    /\ Len(net) = 3
    /\ net[1].status = "ok"
    /\ net[2].status = "ok"
    /\ net[3].op = "files"
    /\ net[3].status = "reject"
    /\ pc = "returned"

(* C9: after a successful publish, files requests were issued for exactly the
   roles that had a file; the document has an entry for every role of the
   page, a cid for each role that had a file and null for each that had none. *)
C9_ManifestAssembly ==
    outcome = "published" =>
        /\ DOMAIN doc.refs = RoleSet(page)
        /\ {net[i].role : i \in BatchRequests} = NonEmptyRoles
        /\ nBatchCalls = Cardinality(NonEmptyRoles)
        /\ \A r \in RoleSet(page) :
              IF r \in NonEmptyRoles THEN doc.refs[r] \in CIDs ELSE doc.refs[r] = Null

C9_Witness ==
    /\ outcome = "published"
    /\ page = "profile"
    /\ NonEmptyRoles = {"cert", "pic"}
    /\ doc.refs["cert"] \in CIDs
    /\ doc.refs["pic"] \in CIDs
    /\ doc.refs["port"] = Null

(* C16: uploadJSONToIPFS is called, and its request issued, only after an
   uploadFilesToIPFS call for every role that has a file has returned a
   result; no files request is pending or failed once the document is
   requested, and the document's request is the last of the run. *)
C16_DocumentAfterAllBatches ==
    (nDocCalls > 0 \/ DocRequests # {}) =>
        /\ nBatchCalls = Cardinality(NonEmptyRoles)
        /\ {net[i].role : i \in BatchRequests} = NonEmptyRoles
        /\ \A i \in BatchRequests : net[i].status = "ok" /\ cids[net[i].role] = Result(net[i].cid)
        /\ \A i \in DocRequests : i = Len(net) /\ \A j \in BatchRequests : j < i

C16_Witness ==
    /\ page = "profile"
    /\ Len(net) = 4
    /\ net[4].op = "json"
    /\ net[4].status = "pending"
    /\ \A i \in 1..3 : net[i].op = "files" /\ net[i].status = "ok"

(* The place of a role in the order of the profile's uploads. *)
RoleRank(r) ==
    CASE r = "cert" -> 1
      [] r = "port" -> 2
      [] r = "pic" -> 3
      [] OTHER -> 4

(* C17: in a profile publish at most one request is pending, and it is the
   last one issued; every request before the last one was answered ok; the
   files requests are issued in the order certification, portfolio, profile
   picture; a request that failed is the last of its run, which has ended. *)
C17_OneRequestAtATime ==
    page = "profile" =>
        /\ Cardinality({i \in 1..Len(net) : net[i].status = "pending"}) <= 1
        /\ \A i \in 1..Len(net) : i < Len(net) => net[i].status = "ok"
        /\ \A i, j \in 1..Len(net) : i < j => RoleRank(net[i].role) < RoleRank(net[j].role)
        /\ \A i \in 1..Len(net) : net[i].status \in FailedStatus => pc = "returned"
        /\ (pc = "await") = (Len(net) > 0 /\ net[Len(net)].status = "pending")

C17_Witness ==
    /\ page = "profile"
    /\ NonEmptyRoles = {"cert", "port", "pic"}
    /\ Len(net) = 2
    /\ net[1].role = "cert"
    /\ net[1].status = "ok"
    /\ net[2].role = "port"
    /\ net[2].status = "notok"
    /\ pc = "returned"

(* The step in which the awaited uploadJSONToIPFS returns its result. *)
ManifestUploadSucceeds ==
    /\ pc = "await"
    /\ Len(net) > 0
    /\ net[Len(net)].op = "json"
    /\ net[Len(net)].status = "pending"
    /\ Len(net') = Len(net)
    /\ net'[Len(net)].status = "ok"

(* C18: isSuccess becomes true, ipfsUrl changes and the saved draft is removed
   only in the step in which uploadJSONToIPFS succeeds, and ipfsUrl is then
   the URL of the returned cid; a step that ends a run with a validation
   failure or an upload failure leaves isSuccess false, ipfsUrl as it was and
   the draft as it was. *)
C18_PublishedOnlyThroughManifest ==
    [][/\ (~isSuccess /\ isSuccess') =>
            ManifestUploadSucceeds /\ ipfsUrl' = Url(net'[Len(net)].cid)
       /\ ipfsUrl' # ipfsUrl =>
            ManifestUploadSucceeds /\ ipfsUrl' = Url(net'[Len(net)].cid) /\ isSuccess'
       /\ (draft /\ ~draft') => ManifestUploadSucceeds /\ isSuccess'
       /\ (outcome' \in {"invalid", "error"} /\ outcome' # outcome) =>
            ~isSuccess' /\ ipfsUrl' = ipfsUrl /\ draft' = draft
       /\ outcome' = "published" => (outcome = "published" \/ ManifestUploadSucceeds)]_vars

C18_Witness ==
    /\ page = "profile"
    /\ pc = "returned"
    /\ outcome = "published"
    /\ isSuccess
    /\ ~draft
    /\ net[Len(net)].op = "json"
    /\ net[Len(net)].status = "ok"
    /\ ipfsUrl = Url(net[Len(net)].cid)

(* C19: a run that has passed validation ends, published or with its error
   in the alert; a run that fails validation has ended with its message shown;
   a run issues at most one request for each role that has a file and one for
   the document, and a published run has called uploadJSONToIPFS exactly
   once. *)
C19_RunTerminates ==
    /\ [](/\ Len(net) <= Cardinality(NonEmptyRoles) + 1
          /\ outcome = "published" => nDocCalls = 1 /\ Cardinality(DocRequests) = 1
          /\ outcome = "invalid" => pc = "returned" /\ attErr # Null
          /\ outcome = "error" => pc = "returned" /\ alertMsg # NoError)
    /\ (outcome = "running") ~>
          (pc = "returned" /\ outcome \in {"published", "error"})

C19_Witness ==
    /\ page = "profile"
    /\ pc = "returned"
    /\ outcome = "published"
    /\ Cardinality(NonEmptyRoles) = 3
    /\ Len(net) = 4
    /\ nDocCalls = 1

----------------------------------------------------------------------------
(* Properties of the matching score *)

(* C10: for every job and candidate scored, empty skill lists on either side
   included, the total of computeMatch is between 0 and 100, and a job with no
   required skill has skill score 0. *)
C10_TotalWithinRange ==
    match.done =>
        /\ match.total \in 0..100
        /\ Len(match.job.skills) = 0 => match.skill = 0

C10_Witness ==
    /\ match.done
    /\ Len(match.job.skills) = 0
    /\ match.service.skills = {}
    /\ match.skill = 0
    /\ match.total = 40

(* The place of a level on the scale Entry < Mid < Senior < Expert. *)
LevelRank(level) ==
    CASE level = "Entry" -> 1
      [] level = "Mid" -> 2
      [] level = "Senior" -> 3
      [] level = "Expert" -> 4

(* C12, as stated: the experience score is 20 for equal levels, otherwise 10
   when the candidate's level is at or below the required one, otherwise 5. *)
C12_ExperienceAsStated ==
    match.done =>
        match.exp = IF match.service.experience = match.job.experience THEN 20
                    ELSE IF LevelRank(match.service.experience) <= LevelRank(match.job.experience)
                         THEN 10 ELSE 5

(* C12, amended: the experience score is 20 for equal levels, otherwise 10
   when the candidate's level is above the required one, and 5 when it is
   below. *)
C12_ExperienceAboveGetsTen ==
    match.done =>
        match.exp = IF match.service.experience = match.job.experience THEN 20
                    ELSE IF LevelRank(match.service.experience) > LevelRank(match.job.experience)
                         THEN 10 ELSE 5

C12_Witness ==
    /\ match.done
    /\ match.job.experience = "Mid"
    /\ match.service.experience = "Expert"
    /\ match.exp = 10

RequiredSkills == {match.job.skills[i] : i \in 1..Len(match.job.skills)}

(* C13: the skill score is the integer nearest to
   |required /\ candidate| / max(1, |required|) * 60, a half rounding up,
   and is at most 60. *)
C13_SkillScoreFormula ==
    match.done =>
        LET common == Cardinality(RequiredSkills \cap match.service.skills)
            den == IF Cardinality(RequiredSkills) >= 1 THEN Cardinality(RequiredSkills) ELSE 1
            n == match.skill
        IN /\ 2 * den * n <= 2 * common * 60 + den
           /\ 2 * common * 60 + den < 2 * den * (n + 1)
           /\ n <= 60

C13_Witness ==
    /\ match.done
    /\ Len(match.job.skills) = 8
    /\ Cardinality(RequiredSkills \cap match.service.skills) = 3
    /\ match.skill = 23

(* A budget bound of the job in tenths; a bound left out counts as 0. *)
BoundValue(text) == IF text = Absent THEN 0 ELSE ParseFloat(text)

(* C14: the budget score is 15 exactly when the candidate's price range lies
   within the job's budget, both ends included, and 5 otherwise; it is 5 in
   particular when both bounds are left out and when budgetMin exceeds
   budgetMax. *)
C14_BudgetComponent ==
    match.done =>
        LET lo == BoundValue(match.job.budgetMin)
            hi == BoundValue(match.job.budgetMax)
            contained == /\ match.service.priceMin * 10 >= lo
                         /\ match.service.priceMax * 10 <= hi
        IN /\ match.budget \in {5, 15}
           /\ match.budget = 15 <=> contained
           /\ (match.job.budgetMin = Absent /\ match.job.budgetMax = Absent) => match.budget = 5
           /\ match.job.budgetMax = Absent => match.budget = 5
           /\ lo > hi => match.budget = 5

C14_Witness ==
    /\ match.done
    /\ match.job.budgetMin = "50"
    /\ match.job.budgetMax = "100"
    /\ match.service.priceMin = 50
    /\ match.service.priceMax = 100
    /\ match.budget = 15

(* C15: a candidate that shares no skill with the job, is below the required
   level, has a price range outside the budget and does not work remotely
   scores skill 0, experience 5, budget 5, remote 0 and 10 in total. *)
C15_WorstCaseScoresTen ==
    (/\ match.done
     /\ RequiredSkills \cap match.service.skills = {}
     /\ LevelRank(match.service.experience) < LevelRank(match.job.experience)
     /\ \/ match.service.priceMin * 10 < BoundValue(match.job.budgetMin)
        \/ match.service.priceMax * 10 > BoundValue(match.job.budgetMax)
     /\ ~match.service.remote)
    => /\ match.skill = 0
       /\ match.exp = 5
       /\ match.budget = 5
       /\ match.remote = 0
       /\ match.total = 10

C15_Witness ==
    /\ match.done
    /\ Len(match.job.skills) > 0
    /\ RequiredSkills \cap match.service.skills = {}
    /\ match.job.experience = "Senior"
    /\ match.service.experience = "Mid"
    /\ match.job.budgetMin = "50"
    /\ match.job.budgetMax = "100"
    /\ match.service.priceMax = 120
    /\ match.job.locationPref = "Remote"
    /\ ~match.service.remote
    /\ match.total = 10

----------------------------------------------------------------------------
(* Properties of the ranking *)

(* The place of an entry in the scored catalogue, by its title. *)
InputPos(e) == CHOOSE k \in 1..Len(top.scored) : top.scored[k].title = e.title

(* C11: getTopMatches returns min(3, n) entries of the scored catalogue, in
   non-increasing order of score, entries of equal score in their catalogue
   order, and no entry left out has a higher score than one returned. *)
C11_RankIsStableTopK ==
    top.done =>
        LET out == top.out
            sc == top.scored
        IN /\ Len(out) = Min(3, Len(sc))
           /\ \A i \in 1..Len(out) : \E k \in 1..Len(sc) : sc[k] = out[i]
           /\ \A i, j \in 1..Len(out) : i < j =>
                 /\ out[i].title # out[j].title
                 /\ out[i].score >= out[j].score
                 /\ out[i].score = out[j].score => InputPos(out[i]) < InputPos(out[j])
           /\ \A k \in 1..Len(sc) : (\A i \in 1..Len(out) : out[i] # sc[k]) =>
                 \A i \in 1..Len(out) : sc[k].score <= out[i].score

C11_Witness ==
    /\ top.done
    /\ Len(top.out) = 3
    /\ top.out[1].title = "DeFi Strategist"
    /\ top.out[2].title = "Solidity Engineer"
    /\ top.out[3].title = "Web3 Frontend Dev"
    /\ top.out[1].score > top.out[2].score
    /\ top.out[2].score = top.out[3].score

====
